---- MODULE Spec2Model ----
(***************************************************************************)
(* FastLZMA2Tool (src/FastLZMA2Tool.cpp): a command-line driver that       *)
(* streams one file through the fast-lzma2 engine.  The model follows      *)
(* main() from argument parsing to the process exit: output-name           *)
(* resolution, creation and initialisation of the two engine contexts,     *)
(* opening of the files, the compression pump with its finish loop, the    *)
(* decompression pump, and the clean-up.                                   *)
(*                                                                         *)
(* The engine (libfast-lzma2) is external.  It is modelled as an           *)
(* environment: a stateful codec that may consume any part of the input it *)
(* is offered, may keep produced data inside, may fill the output buffer   *)
(* only partly, and may report an error at any call.  Its container is     *)
(* abstract: one symbol per source byte followed by an end-of-stream mark. *)
(***************************************************************************)
EXTENDS Integers, Sequences, FiniteSets, TLC

(***************************************************************************)
(* Bounds of the model.                                                    *)
(***************************************************************************)
\* longest source file, in bytes
MaxLen == 3
\* in_buffer / out_buffer of compress_file (8 * 1024 and 4 * 1024 bytes in
\* the source, lines 67-68), scaled down
CInCap == 2
COutCap == 1
\* in_buffer / out_buffer of decompress_file (4 * 1024 and 8 * 1024 bytes in
\* the source, lines 111-112), scaled down
DInCap == 1
DOutCap == 2
\* the call counters nFeed and nFinish stop counting here
CountCap == 2

Min(a, b) == IF a < b THEN a ELSE b

SetMax(S) == CHOOSE x \in S : \A y \in S : y <= x

SetMin(S) == CHOOSE x \in S : \A y \in S : x <= y

(***************************************************************************)
(* Strings are sequences of one-character strings.                         *)
(***************************************************************************)
StrCompress == <<"c", "o", "m", "p", "r", "e", "s", "s">>

StrDecompress == <<"d", "e">> \o StrCompress

OptThreads == <<"-", "t", "h", "r", "e", "a", "d", "s", "=">>

OptPreset == <<"-", "p", "r", "e", "s", "e", "t", "=">>

postfix == <<".", "l", "z", "m", "a", "2">>

\* std::string::npos
NPos == 0 - 1

\* strncmp(s, p, strlen(p)) == 0, and std::string::find(p) == 0
IsPrefix(p, s) == Len(s) >= Len(p) /\ SubSeq(s, 1, Len(p)) = p

\* s.substr(n)
Substr(s, n) == SubSeq(s, n + 1, Len(s))

\* std::string::find(p): the index (from 0) of the first occurrence, or npos
Find(s, p) ==
    LET hits == {i \in 0..(Len(s) - Len(p)) : SubSeq(s, i + 1, i + Len(p)) = p}
    IN  IF hits = {} THEN NPos ELSE SetMin(hits)

EndsWith(s, p) == Len(s) >= Len(p) /\ SubSeq(s, Len(s) - Len(p) + 1, Len(s)) = p

(***************************************************************************)
(* std::equal(postfix.rbegin(), postfix.rend(), s.rbegin()): the set of    *)
(* results the call can give.  It compares from the last character         *)
(* backwards and stops at the first difference.  When s is shorter than    *)
(* the postfix and every character of s matches, it reads before the       *)
(* start of s: undefined behaviour, either result.                         *)
(***************************************************************************)
EqualRev(s) ==
    IF Len(s) >= Len(postfix)
    THEN {EndsWith(s, postfix)}
    ELSE IF EndsWith(postfix, s) THEN BOOLEAN ELSE {FALSE}

(***************************************************************************)
(* std::atoi: optional blanks, optional sign, then decimal digits up to    *)
(* the first other character; 0 when there is no digit.                    *)
(***************************************************************************)
Digits == <<"0", "1", "2", "3", "4", "5", "6", "7", "8", "9">>

IsDigit(c) == \E d \in 1..10 : Digits[d] = c

DigitVal(c) == (CHOOSE d \in 1..10 : Digits[d] = c) - 1

RECURSIVE AtoiDigits(_, _)
AtoiDigits(s, acc) ==
    IF s = <<>> \/ ~IsDigit(Head(s))
    THEN acc
    ELSE AtoiDigits(Tail(s), 10 * acc + DigitVal(Head(s)))

RECURSIVE Atoi(_)
Atoi(s) ==
    IF s = <<>> THEN 0
    ELSE IF Head(s) = " " THEN Atoi(Tail(s))
    ELSE IF Head(s) = "-" THEN 0 - AtoiDigits(Tail(s), 0)
    ELSE IF Head(s) = "+" THEN AtoiDigits(Tail(s), 0)
    ELSE AtoiDigits(s, 0)

(***************************************************************************)
(* Status values of the engine (size_t).  Error codes are the top of the   *)
(* size_t range; the model writes the one error status as a negative       *)
(* number.  FL2_isError is the engine's test for them.                     *)
(***************************************************************************)
ErrStatus == 0 - 1

FL2_isError(r) == r < 0

InitStatuses == {0, 1, ErrStatus}

(***************************************************************************)
(* The inputs of a run: the command line (argv[1..], argv[0] left out),    *)
(* the current directory and the content of the source file.               *)
(***************************************************************************)
Byte == {0, 1}

RECURSIVE SeqsUpTo(_, _)
SeqsUpTo(S, n) ==
    IF n = 0 THEN {<<>>}
    ELSE LET shorter == SeqsUpTo(S, n - 1)
         IN  shorter \cup {Append(s, b) : s \in {t \in shorter : Len(t) = n - 1}, b \in S}

Files == SeqsUpTo(Byte, MaxLen)

FileA == <<"a">>

FileB == <<"b">>

\* command lines of the pump specifications: one per direction, one rejected
ArgvPump ==
    { <<StrCompress, FileA>>,
      <<StrDecompress, FileA \o postfix>>,
      <<StrCompress>> }

\* command lines of the argument specification
ArgvNames ==
    { <<>>,
      <<StrCompress>>,
      <<FileA>>,
      <<StrCompress, FileA>>,
      <<StrCompress, FileA \o postfix>>,
      <<StrCompress, FileA, FileB>>,
      <<StrCompress, FileA, FileB \o postfix>>,
      <<StrCompress, <<"C", ":", "/", "a">>>>,
      <<StrCompress, <<"C", ":", "\\", "a">> \o postfix>>,
      <<StrCompress, <<"-", "x">>, FileA>>,
      <<StrCompress, OptPreset \o <<"3">>, OptThreads \o <<"1", "2">>, FileA>>,
      <<StrCompress, FileA, OptThreads \o <<"-", "2", "x">>>>,
      <<StrCompress \o <<"e", "d">>, <<>>>>,
      <<StrDecompress, FileA \o postfix>>,
      <<StrDecompress, FileA>>,
      <<StrDecompress, FileA \o postfix \o postfix>>,
      <<StrDecompress, FileA \o postfix, FileB>>,
      <<StrDecompress, FileA \o postfix, FileB \o postfix \o postfix>>,
      <<StrDecompress, OptPreset \o <<" ", "+", "7">>, FileA \o postfix>>,
      <<StrDecompress, <<"z", "m", "a", "2">>>>,
      <<StrDecompress, <<>>>>,
      <<StrDecompress, postfix>> }

\* std::filesystem::current_path().string()
CwdSet == { <<"/", "w">>, <<"C", ":", "\\", "w">> }

FilesNames == { <<>>, <<1, 0>> }

VARIABLES
    pc,            \* position of the process in main and the functions it calls
    argv,          \* the command line, argv[1..argc-1]
    file,          \* content of the source file
    bCompress,     \* line 142
    thread_count,  \* line 27
    preset,        \* line 197
    name,          \* line 220
    out_name,      \* line 30
    fcs, fds,      \* lines 31-32: "null", "created", "ready" or "freed"
    fin, fout,     \* lines 28-29: "unopened", "open" or "closed"
    rpos,          \* read position of fin
    sink,          \* bytes written to fout
    in_buffer,     \* the bytes the last refill put in in_buffer
    in_buf,        \* FL2_inBuffer: size and pos
    out_buffer,    \* the bytes the engine put in out_buffer since the last reset
    out_buf,       \* FL2_outBuffer: size and pos
    res,           \* the local res of the running function
    in_size,       \* local byte counter of the pump
    out_size,      \* local byte counter of the pump
    ret,           \* main's ret
    exitCode,      \* exit status of the process, -1 while it runs
    eng,           \* the engine's stream: data held inside, end of stream seen
    calls,         \* history: adapter calls so far, repeats of a call merged
    nFeed,         \* history: feed calls so far, up to CountCap
    nFinish,       \* history: finish calls so far, up to CountCap
    errSeen,       \* history: a feed or finish call reported an error
    afterErr,      \* history: adapter calls made after that error
    stalled,       \* history: a call made no progress although it could
    consumed,      \* history: input bytes the engine took
    produced,      \* history: output bytes the engine gave
    lastOut,       \* history: bytes the last checked call had produced
    failure,       \* history: the failure the environment caused, or "none"
    phase,         \* 1; 2 for the decompression half of a round trip
    orig           \* the source of the compression half of a round trip

vars ==
    <<pc, argv, file, bCompress, thread_count, preset, name, out_name, fcs, fds,
      fin, fout, rpos, sink, in_buffer, in_buf, out_buffer, out_buf, res,
      in_size, out_size, ret, exitCode, eng, calls, nFeed, nFinish, errSeen,
      afterErr, stalled, consumed, produced, lastOut, failure, phase, orig>>

argVars == <<argv, bCompress, thread_count, preset, name, out_name>>

pumpVars == <<rpos, in_buffer, in_buf, out_buffer, out_buf, in_size, out_size>>

histVars == <<nFeed, nFinish, errSeen, stalled, consumed, produced, lastOut>>

\* the state of a process at its start, on command line a and source file f
Start(a, f) ==
    /\ pc = "main"
    /\ argv = a
    /\ file = f
    /\ bCompress = TRUE
    /\ thread_count = 8
    /\ preset = 6
    /\ name = <<>>
    /\ out_name = <<>>
    /\ fcs = "null"
    /\ fds = "null"
    /\ fin = "unopened"
    /\ fout = "unopened"
    /\ rpos = 0
    /\ sink = <<>>
    /\ in_buffer = <<>>
    /\ in_buf = [size |-> 0, pos |-> 0]
    /\ out_buffer = <<>>
    /\ out_buf = [size |-> 0, pos |-> 0]
    /\ res = 0
    /\ in_size = 0
    /\ out_size = 0
    /\ ret = 0
    /\ exitCode = 0 - 1
    /\ eng = [pend |-> <<>>, ended |-> FALSE]
    /\ calls = <<>>
    /\ nFeed = 0
    /\ nFinish = 0
    /\ errSeen = FALSE
    /\ afterErr = {}
    /\ stalled = FALSE
    /\ consumed = 0
    /\ produced = <<>>
    /\ lastOut = 0
    /\ failure = "none"

Init ==
    /\ \E a \in ArgvPump, f \in Files : Start(a, f)
    /\ phase = 1
    /\ orig = <<>>

InitNames ==
    /\ \E a \in ArgvNames, f \in FilesNames : Start(a, f)
    /\ phase = 1
    /\ orig = <<>>

\* a call of the adapter, added to the history
Called(c) ==
    /\ calls' = IF calls # <<>> /\ calls[Len(calls)] = c THEN calls ELSE Append(calls, c)
    /\ afterErr' = IF errSeen THEN afterErr \cup {c} ELSE afterErr

\* two calls in one step
Called2(c, d) ==
    /\ calls' = Append(Append(calls, c), d)
    /\ afterErr' = IF errSeen THEN afterErr \cup {c, d} ELSE afterErr

(***************************************************************************)
(* exit(): the objects of static storage duration are destroyed, so the    *)
(* destructors of fin and fout close a file that is open.  The engine      *)
(* contexts are plain pointers: nothing frees them.                        *)
(***************************************************************************)
StaticDtorLeak(f) == f

StaticDtor(f) == IF f = "open" THEN "closed" ELSE f

\* exit(1), through exit_fail or directly
Exit1(why) ==
    /\ pc' = "exited"
    /\ exitCode' = 1
    /\ failure' = why
    /\ fin' = StaticDtor(fin)
    /\ fout' = StaticDtor(fout)

(***************************************************************************)
(* main, lines 176-238: the operation, the options, FILE and OUT.          *)
(***************************************************************************)
FirstIsDash(s) == s # <<>> /\ Head(s) = "-"

\* line 186 / 191: the operation word is matched by its prefix
OpOf(a) ==
    IF IsPrefix(StrCompress, a[1]) THEN "compress"
    ELSE IF IsPrefix(StrDecompress, a[1]) THEN "decompress"
    ELSE "none"

\* lines 203-214: the last option of a kind wins
OptionValue(a, argIndex, opt, default) ==
    LET hits == {i \in argIndex..Len(a) : IsPrefix(opt, a[i])}
    IN  IF hits = {} THEN default ELSE Atoi(Substr(a[SetMax(hits)], Len(opt)))

\* lines 221-230: the index of FILE, 0 when there is none
NameIndex(a, argIndex) ==
    LET hits == {i \in argIndex..Len(a) : ~FirstIsDash(a[i])}
    IN  IF hits = {} THEN 0 ELSE SetMin(hits)

\* lines 183-195: the index of the first argument after the operation word
ArgIndex(a) == IF OpOf(a) = "none" THEN 1 ELSE 2

\* lines 224-238: the name the output name is made from: OUT when an argument
\* follows FILE, else FILE
RequestedOut(a) ==
    LET i == NameIndex(a, ArgIndex(a))
        out == IF i + 1 < Len(a) + 1 THEN a[i + 1] ELSE <<>>
    IN  IF Len(out) = 0 THEN a[i] ELSE out

ParseArgs ==
    /\ pc = "main"
    /\ IF Len(argv) + 1 < 2
       THEN /\ Exit1("usage")
            /\ UNCHANGED <<bCompress, thread_count, preset, name, out_name>>
       ELSE LET argIndex == ArgIndex(argv)
                i == NameIndex(argv, argIndex)
            IN  /\ bCompress' = IF OpOf(argv) = "decompress" THEN FALSE ELSE TRUE
                /\ thread_count' = OptionValue(argv, argIndex, OptThreads, thread_count)
                /\ preset' = OptionValue(argv, argIndex, OptPreset, preset)
                /\ IF i = 0
                   THEN /\ Exit1("usage")
                        /\ UNCHANGED <<name, out_name>>
                   ELSE /\ name' = argv[i]
                        /\ out_name' = RequestedOut(argv)
                        /\ pc' = "resolve"
                        /\ UNCHANGED <<exitCode, failure, fin, fout>>
    /\ UNCHANGED <<argv, file, fcs, fds, sink, res, ret, eng, calls, afterErr,
                   phase, orig>>
    /\ UNCHANGED pumpVars
    /\ UNCHANGED histVars

(***************************************************************************)
(* main, lines 240-260: the output name.                                   *)
(***************************************************************************)
\* line 245: the name does not start with a drive, "X:\" or "X:/"
NotAbsolute(s) == Find(s, <<":", "\\">>) # 1 /\ Find(s, <<":", "/">>) # 1

\* line 258
StripPostfixShort(s) ==
    IF Len(s) >= Len(postfix) THEN SubSeq(s, 1, Len(s) - Len(postfix) + 1) ELSE s

\* line 258: substr(0, size - postfix.size()); the count is a size_t, so on a
\* name shorter than the postfix it wraps around and substr keeps the whole name
StripPostfix(s) ==
    IF Len(s) >= Len(postfix) THEN SubSeq(s, 1, Len(s) - Len(postfix)) ELSE s

ResolveOut ==
    /\ pc = "resolve"
    /\ IF bCompress
       THEN \E cwd \in CwdSet :
              LET full == IF NotAbsolute(out_name)
                          THEN cwd \o <<"\\">> \o out_name
                          ELSE out_name
              IN  \E eq \in EqualRev(full) :
                     out_name' = IF ~eq THEN full \o postfix ELSE full
       ELSE \E eq \in EqualRev(out_name) :
              out_name' = IF eq THEN StripPostfix(out_name) ELSE out_name
    /\ pc' = "createC"
    /\ UNCHANGED <<argv, file, bCompress, thread_count, preset, name, fcs, fds,
                   fin, fout, sink, res, ret, exitCode, eng, calls, afterErr,
                   failure, phase, orig>>
    /\ UNCHANGED pumpVars
    /\ UNCHANGED histVars

(***************************************************************************)
(* create_init_fl2_streams, lines 155-172.                                 *)
(***************************************************************************)
CreateC ==
    /\ pc = "createC"
    /\ Called("createC")
    /\ \E ok \in BOOLEAN :
         IF ok
         THEN /\ fcs' = "created"
              /\ pc' = "createD"
              /\ UNCHANGED <<exitCode, failure, fin, fout>>
         ELSE /\ Exit1("allocC")
              /\ UNCHANGED fcs
    /\ UNCHANGED <<file, fds, sink, res, ret, eng, phase, orig>>
    /\ UNCHANGED argVars
    /\ UNCHANGED pumpVars
    /\ UNCHANGED histVars

CreateD ==
    /\ pc = "createD"
    /\ Called("createD")
    /\ \E ok \in BOOLEAN :
         IF ok
         THEN /\ fds' = "created"
              /\ pc' = "initC"
              /\ UNCHANGED <<exitCode, failure, fin, fout>>
         ELSE /\ Exit1("allocD")
              /\ UNCHANGED fds
    /\ UNCHANGED <<file, fcs, sink, res, ret, eng, phase, orig>>
    /\ UNCHANGED argVars
    /\ UNCHANGED pumpVars
    /\ UNCHANGED histVars

\* line 166: FL2_initDStream is called only when FL2_initCStream returned 0
InitDNeeded(r) == r = 0

\* lines 165-166, and lines 168-171 when FL2_initDStream is skipped
InitC ==
    /\ pc = "initC"
    /\ Called("initC")
    /\ \E r \in InitStatuses :
         /\ res' = r
         /\ fcs' = IF FL2_isError(r) THEN fcs ELSE "ready"
         /\ IF InitDNeeded(r)
            THEN /\ pc' = "initD"
                 /\ UNCHANGED <<exitCode, failure, fin, fout>>
            ELSE IF FL2_isError(r)
            THEN Exit1("init")
            ELSE /\ pc' = "openIn"
                 /\ UNCHANGED <<exitCode, failure, fin, fout>>
    /\ UNCHANGED <<file, fds, sink, ret, eng, phase, orig>>
    /\ UNCHANGED argVars
    /\ UNCHANGED pumpVars
    /\ UNCHANGED histVars

\* lines 167-171
InitD ==
    /\ pc = "initD"
    /\ Called("initD")
    /\ \E r \in InitStatuses :
         /\ res' = r
         /\ fds' = IF FL2_isError(r) THEN fds ELSE "ready"
         /\ IF FL2_isError(r)
            THEN Exit1("init")
            ELSE /\ pc' = "openIn"
                 /\ UNCHANGED <<exitCode, failure, fin, fout>>
    /\ UNCHANGED <<file, fcs, sink, ret, eng, phase, orig>>
    /\ UNCHANGED argVars
    /\ UNCHANGED pumpVars
    /\ UNCHANGED histVars

(***************************************************************************)
(* open_files, lines 143-153.  Whether a file can be opened is the         *)
(* environment's choice.  Opening the output truncates it.                 *)
(***************************************************************************)
\* the two names are the same path: the same string.  (Two different strings
\* may name one file as well; the model does not follow that.)
SamePath(a, b) == a = b

OpenIn ==
    /\ pc = "openIn"
    /\ \E ok \in BOOLEAN :
         IF ok
         THEN /\ fin' = "open"
              /\ rpos' = 0
              /\ pc' = "openOut"
              /\ UNCHANGED <<exitCode, failure, fout>>
         ELSE /\ Exit1("openIn")
              /\ UNCHANGED rpos
    /\ UNCHANGED <<file, fcs, fds, sink, res, ret, eng, calls, afterErr, phase, orig>>
    /\ UNCHANGED <<in_buffer, in_buf, out_buffer, out_buf, in_size, out_size>>
    /\ UNCHANGED argVars
    /\ UNCHANGED histVars

OpenOut ==
    /\ pc = "openOut"
    /\ \E ok \in BOOLEAN :
         IF ok
         THEN /\ fout' = "open"
              /\ sink' = <<>>
              /\ file' = IF SamePath(out_name, name) THEN <<>> ELSE file
              /\ pc' = "run"
              /\ UNCHANGED <<exitCode, failure, fin>>
         ELSE /\ Exit1("openOut")
              /\ UNCHANGED <<sink, file>>
    /\ UNCHANGED <<fcs, fds, res, ret, eng, calls, afterErr, phase, orig>>
    /\ UNCHANGED argVars
    /\ UNCHANGED pumpVars
    /\ UNCHANGED histVars

(***************************************************************************)
(* The engine.  Container: each source byte b is the symbol b + 1, the     *)
(* symbol 0 ends the stream.  eng.pend is what the engine holds inside and *)
(* has not yet put in an output buffer.                                    *)
(***************************************************************************)
EncSeq(s) == [i \in 1..Len(s) |-> s[i] + 1]

DecSeq(s) == [i \in 1..Len(s) |-> s[i] - 1]

IsEndMark(x) == x = 0

\* how many of the symbols s a decoder that has not seen the end may take:
\* up to and including the first end mark
Consumable(s) ==
    LET ends == {i \in 1..Len(s) : IsEndMark(s[i])}
    IN  IF ends = {} THEN Len(s) ELSE SetMin(ends)

\* a call that could have consumed or produced something and did neither
Stall(k, m, avail, held) == k = 0 /\ m = 0 /\ (avail > 0 \/ held > 0)

Count(n) == Min(n + 1, CountCap)

(***************************************************************************)
(* Pieces shared by compress_file and decompress_file.                     *)
(***************************************************************************)
NeedRefillAlways(b) == TRUE

\* lines 75 and 119
NeedRefill(b) == b.pos = b.size

\* ffread, lines 41-44: the bytes a read of up to n bytes gets
FFRead(n) == SubSeq(file, rpos + 1, Min(rpos + n, Len(file)))

RefillKeepPos(cap) ==
    LET got == FFRead(cap)
    IN  /\ in_buffer' = got
        /\ in_buf' = [size |-> Len(got), pos |-> in_buf.pos]
        /\ in_size' = in_size + Len(got)
        /\ rpos' = rpos + Len(got)

\* lines 76-78 and 120-122
Refill(cap) ==
    LET got == FFRead(cap)
    IN  /\ in_buffer' = got
        /\ in_buf' = [size |-> Len(got), pos |-> 0]
        /\ in_size' = in_size + Len(got)
        /\ rpos' = rpos + Len(got)

FailedNever(r) == FALSE

\* lines 81, 92 and 125: the test of the status each feed and finish call returns
Failed(r) == FL2_isError(r)

DrainNoReset ==
    /\ sink' = sink \o SubSeq(out_buffer, 1, out_buf.pos)
    /\ out_size' = out_size + out_buf.pos
    /\ UNCHANGED <<out_buf, out_buffer>>
    /\ lastOut' = out_buf.pos

\* lines 84-87, 95-97 and 127-130: write out_buf.pos bytes, count them, reset
Drain ==
    /\ sink' = sink \o SubSeq(out_buffer, 1, out_buf.pos)
    /\ out_size' = out_size + out_buf.pos
    /\ out_buf' = [out_buf EXCEPT !.pos = 0]
    /\ out_buffer' = <<>>
    /\ lastOut' = out_buf.pos

ErrorOutRet0 ==
    /\ Called("errorName")
    /\ ret' = 0
    /\ pc' = "cleanup"
    /\ UNCHANGED <<sink, out_size, out_buf, out_buffer, lastOut>>

\* lines 103-105 and 137-139
ErrorOut ==
    /\ Called("errorName")
    /\ ret' = 1
    /\ pc' = "cleanup"
    /\ UNCHANGED <<sink, out_size, out_buf, out_buffer, lastOut>>

(***************************************************************************)
(* compress_file, lines 64-106.                                            *)
(***************************************************************************)
\* lines 265-268 and 66-73
CStart ==
    /\ pc = "run"
    /\ bCompress
    /\ in_buffer' = <<>>
    /\ in_buf' = [size |-> CInCap, pos |-> CInCap]
    /\ out_buffer' = <<>>
    /\ out_buf' = [size |-> COutCap, pos |-> 0]
    /\ res' = 0
    /\ in_size' = 0
    /\ out_size' = 0
    /\ pc' = "c_top"
    /\ UNCHANGED <<file, fcs, fds, fin, fout, rpos, sink, ret, exitCode, eng,
                   calls, afterErr, failure, phase, orig>>
    /\ UNCHANGED argVars
    /\ UNCHANGED histVars

\* lines 75-79
CRefill ==
    /\ pc = "c_top"
    /\ IF NeedRefill(in_buf)
       THEN Refill(CInCap)
       ELSE UNCHANGED <<in_buffer, in_buf, in_size, rpos>>
    /\ pc' = "c_feed"
    /\ UNCHANGED <<file, fcs, fds, fin, fout, sink, out_buffer, out_buf, res,
                   out_size, ret, exitCode, eng, calls, afterErr, failure, phase,
                   orig>>
    /\ UNCHANGED argVars
    /\ UNCHANGED histVars

\* line 80: FL2_compressStream(fcs, &out_buf, &in_buf)
CFeed ==
    /\ pc = "c_feed"
    /\ Called("feed")
    /\ nFeed' = Count(nFeed)
    /\ \E k \in 0..(in_buf.size - in_buf.pos), err \in BOOLEAN :
         LET pend1 == eng.pend \o EncSeq(SubSeq(in_buffer, in_buf.pos + 1, in_buf.pos + k))
         IN  \E m \in 0..Min(out_buf.size - out_buf.pos, Len(pend1)) :
               /\ err => k = 0 /\ m = 0
               /\ in_buf' = [in_buf EXCEPT !.pos = in_buf.pos + k]
               /\ out_buf' = [out_buf EXCEPT !.pos = out_buf.pos + m]
               /\ out_buffer' = out_buffer \o SubSeq(pend1, 1, m)
               /\ eng' = [eng EXCEPT !.pend = SubSeq(pend1, m + 1, Len(pend1))]
               /\ res' = IF err THEN ErrStatus
                         ELSE IF m < Len(pend1) THEN 1 ELSE 0
               /\ errSeen' = (errSeen \/ err)
               /\ consumed' = consumed + k
               /\ produced' = produced \o SubSeq(pend1, 1, m)
               /\ stalled' = (stalled \/ (~err /\ Stall(k, m, in_buf.size - in_buf.pos,
                                                           Len(pend1))))
    /\ pc' = "c_chk"
    /\ UNCHANGED <<file, fcs, fds, fin, fout, rpos, sink, in_buffer, in_size,
                   out_size, ret, exitCode, nFinish, lastOut, failure, phase, orig>>
    /\ UNCHANGED argVars

CLoopWhileUnread(b) == b.pos < b.size

\* line 89
CLoopCond(b) == b.size # 0

\* lines 81-89
CDrain ==
    /\ pc = "c_chk"
    /\ IF Failed(res)
       THEN ErrorOut
       ELSE /\ Drain
            /\ pc' = IF CLoopCond(in_buf) THEN "c_top" ELSE "e_call"
            /\ UNCHANGED <<ret, calls, afterErr>>
    /\ UNCHANGED <<file, fcs, fds, fin, fout, rpos, in_buffer, in_buf, res,
                   in_size, exitCode, eng, nFeed, nFinish, errSeen, stalled,
                   consumed, produced, failure, phase, orig>>
    /\ UNCHANGED argVars

\* line 91: FL2_endStream(fcs, &out_buf)
CEnd ==
    /\ pc = "e_call"
    /\ Called("finish")
    /\ nFinish' = Count(nFinish)
    /\ \E err \in BOOLEAN :
         LET pend1 == IF eng.ended THEN eng.pend ELSE Append(eng.pend, 0)
         IN  \E m \in 0..Min(out_buf.size - out_buf.pos, Len(pend1)) :
               /\ err => m = 0
               /\ out_buf' = [out_buf EXCEPT !.pos = out_buf.pos + m]
               /\ out_buffer' = out_buffer \o SubSeq(pend1, 1, m)
               /\ eng' = [pend |-> SubSeq(pend1, m + 1, Len(pend1)), ended |-> TRUE]
               /\ res' = IF err THEN ErrStatus
                         ELSE IF m < Len(pend1) THEN 1 ELSE 0
               /\ errSeen' = (errSeen \/ err)
               /\ produced' = produced \o SubSeq(pend1, 1, m)
               /\ stalled' = (stalled \/ (~err /\ Stall(0, m, 0, Len(pend1))))
    /\ pc' = "e_chk"
    /\ UNCHANGED <<file, fcs, fds, fin, fout, rpos, sink, in_buffer, in_buf,
                   in_size, out_size, ret, exitCode, nFeed, consumed, lastOut,
                   failure, phase, orig>>
    /\ UNCHANGED argVars

ELoopOnce(r) == FALSE

\* line 98
ELoopCond(r) == r # 0

\* lines 92-101
CEndDrain ==
    /\ pc = "e_chk"
    /\ IF Failed(res)
       THEN ErrorOut
       ELSE /\ Drain
            /\ IF ELoopCond(res)
               THEN /\ pc' = "e_call"
                    /\ UNCHANGED ret
               ELSE /\ pc' = "cleanup"
                    /\ ret' = 0
            /\ UNCHANGED <<calls, afterErr>>
    /\ UNCHANGED <<file, fcs, fds, fin, fout, rpos, in_buffer, in_buf, res,
                   in_size, exitCode, eng, nFeed, nFinish, errSeen, stalled,
                   consumed, produced, failure, phase, orig>>
    /\ UNCHANGED argVars

(***************************************************************************)
(* decompress_file, lines 108-140.                                         *)
(***************************************************************************)
\* lines 275-276 and 110-117; res is not initialised and not read before
\* line 124 assigns it
DStart ==
    /\ pc = "run"
    /\ ~bCompress
    /\ in_buffer' = <<>>
    /\ in_buf' = [size |-> DInCap, pos |-> DInCap]
    /\ out_buffer' = <<>>
    /\ out_buf' = [size |-> DOutCap, pos |-> 0]
    /\ in_size' = 0
    /\ out_size' = 0
    /\ pc' = "d_top"
    /\ UNCHANGED <<file, fcs, fds, fin, fout, rpos, sink, res, ret, exitCode, eng,
                   calls, afterErr, failure, phase, orig>>
    /\ UNCHANGED argVars
    /\ UNCHANGED histVars

\* lines 119-123
DRefill ==
    /\ pc = "d_top"
    /\ IF NeedRefill(in_buf)
       THEN Refill(DInCap)
       ELSE UNCHANGED <<in_buffer, in_buf, in_size, rpos>>
    /\ pc' = "d_feed"
    /\ UNCHANGED <<file, fcs, fds, fin, fout, sink, out_buffer, out_buf, res,
                   out_size, ret, exitCode, eng, calls, afterErr, failure, phase,
                   orig>>
    /\ UNCHANGED argVars
    /\ UNCHANGED histVars

\* line 124: FL2_decompressStream(fds, &out_buf, &in_buf); it returns 0 when
\* the stream has ended and all of it has been put out
DFeed ==
    /\ pc = "d_feed"
    /\ Called("feed")
    /\ nFeed' = Count(nFeed)
    /\ LET offered == SubSeq(in_buffer, in_buf.pos + 1, in_buf.size)
           most == IF eng.ended THEN 0 ELSE Consumable(offered)
       IN  \E k \in 0..most, err \in BOOLEAN :
             LET taken == SubSeq(offered, 1, k)
                 ended1 == eng.ended \/ (k > 0 /\ IsEndMark(taken[k]))
                 data == IF k > 0 /\ IsEndMark(taken[k]) THEN SubSeq(taken, 1, k - 1)
                         ELSE taken
                 pend1 == eng.pend \o DecSeq(data)
             IN  \E m \in 0..Min(out_buf.size - out_buf.pos, Len(pend1)) :
                   /\ err => k = 0 /\ m = 0
                   /\ in_buf' = [in_buf EXCEPT !.pos = in_buf.pos + k]
                   /\ out_buf' = [out_buf EXCEPT !.pos = out_buf.pos + m]
                   /\ out_buffer' = out_buffer \o SubSeq(pend1, 1, m)
                   /\ eng' = [pend |-> SubSeq(pend1, m + 1, Len(pend1)),
                              ended |-> ended1]
                   /\ res' = IF err THEN ErrStatus
                             ELSE IF ended1 /\ m = Len(pend1) THEN 0 ELSE 1
                   /\ errSeen' = (errSeen \/ err)
                   /\ consumed' = consumed + k
                   /\ produced' = produced \o SubSeq(pend1, 1, m)
                   /\ stalled' = (stalled \/ (~err /\ Stall(k, m, most, Len(pend1))))
    /\ pc' = "d_chk"
    /\ UNCHANGED <<file, fcs, fds, fin, fout, rpos, sink, in_buffer, in_size,
                   out_size, ret, exitCode, nFinish, lastOut, failure, phase, orig>>
    /\ UNCHANGED argVars

DLoopWhilePending(r, b) == r # 0

\* line 131
DLoopCond(r, b) == r # 0 /\ b.size # 0

\* lines 125-135
DDrain ==
    /\ pc = "d_chk"
    /\ IF Failed(res)
       THEN ErrorOut
       ELSE /\ Drain
            /\ IF DLoopCond(res, in_buf)
               THEN /\ pc' = "d_top"
                    /\ UNCHANGED ret
               ELSE /\ pc' = "cleanup"
                    /\ ret' = 0
            /\ UNCHANGED <<calls, afterErr>>
    /\ UNCHANGED <<file, fcs, fds, fin, fout, rpos, in_buffer, in_buf, res,
                   in_size, exitCode, eng, nFeed, nFinish, errSeen, stalled,
                   consumed, produced, failure, phase, orig>>
    /\ UNCHANGED argVars

(***************************************************************************)
(* main, lines 282-288: close the files, free the contexts, return ret.    *)
(***************************************************************************)
Cleanup ==
    /\ pc = "cleanup"
    /\ fout' = "closed"
    /\ fin' = "closed"
    /\ Called2("freeC", "freeD")
    /\ fcs' = "freed"
    /\ fds' = "freed"
    /\ exitCode' = ret
    /\ pc' = "exited"
    /\ UNCHANGED <<file, sink, res, ret, eng, failure, phase, orig>>
    /\ UNCHANGED argVars
    /\ UNCHANGED pumpVars
    /\ UNCHANGED histVars

Next ==
    \/ ParseArgs
    \/ ResolveOut
    \/ CreateC
    \/ CreateD
    \/ InitC
    \/ InitD
    \/ OpenIn
    \/ OpenOut
    \/ CStart
    \/ CRefill
    \/ CFeed
    \/ CDrain
    \/ CEnd
    \/ CEndDrain
    \/ DStart
    \/ DRefill
    \/ DFeed
    \/ DDrain
    \/ Cleanup

\* one run of the tool on any source file
Spec == Init /\ [][Next]_vars

\* one run of the tool on any of the command lines
SpecNames == InitNames /\ [][Next]_vars

(***************************************************************************)
(* Round trip: after a compression run that succeeded, the tool is run     *)
(* again to decompress the file that run wrote.                            *)
(***************************************************************************)
\* the next state is the start of a process on command line a and source file f
Restart(a, f) ==
    /\ pc' = "main"
    /\ argv' = a
    /\ file' = f
    /\ bCompress' = TRUE
    /\ thread_count' = 8
    /\ preset' = 6
    /\ name' = <<>>
    /\ out_name' = <<>>
    /\ fcs' = "null"
    /\ fds' = "null"
    /\ fin' = "unopened"
    /\ fout' = "unopened"
    /\ rpos' = 0
    /\ sink' = <<>>
    /\ in_buffer' = <<>>
    /\ in_buf' = [size |-> 0, pos |-> 0]
    /\ out_buffer' = <<>>
    /\ out_buf' = [size |-> 0, pos |-> 0]
    /\ res' = 0
    /\ in_size' = 0
    /\ out_size' = 0
    /\ ret' = 0
    /\ exitCode' = 0 - 1
    /\ eng' = [pend |-> <<>>, ended |-> FALSE]
    /\ calls' = <<>>
    /\ nFeed' = 0
    /\ nFinish' = 0
    /\ errSeen' = FALSE
    /\ afterErr' = {}
    /\ stalled' = FALSE
    /\ consumed' = 0
    /\ produced' = <<>>
    /\ lastOut' = 0
    /\ failure' = "none"

Redo ==
    /\ pc = "exited"
    /\ exitCode = 0
    /\ bCompress
    /\ phase = 1
    /\ Restart(<<StrDecompress, out_name>>, sink)
    /\ phase' = 2
    /\ orig' = file

NextRT == Next \/ Redo

SpecRT == Init /\ [][NextRT]_vars

(***************************************************************************)
(* Properties.                                                             *)
(***************************************************************************)
Succeeded == pc = "exited" /\ exitCode = 0

PumpPcs == {"c_top", "c_feed", "c_chk", "e_call", "e_chk", "d_top", "d_feed", "d_chk"}

\* the output name has been resolved
Resolved == pc \notin {"main", "resolve"} /\ failure # "usage"

\* the call c has been made
WasCalled(c) == \E i \in 1..Len(calls) : calls[i] = c

\* C1: round trip.  When the tool has compressed a source S and then
\* decompressed the file it wrote, both runs succeeding on initialised
\* contexts and an engine that reported no error and never stalled, the bytes
\* written by the second run are S.
RoundTrip ==
    (phase = 2 /\ Succeeded /\ ~stalled /\ WasCalled("initD")) => sink = orig

\* C2: decompress_file returns success only when the last feed call returned
\* status zero, or when the input is exhausted and the last feed call
\* produced no output.
DecompressStopsWhenDone ==
    (~bCompress /\ pc = "cleanup" /\ ret = 0)
        => (res = 0 \/ (in_buf.size = 0 /\ lastOut = 0))

\* C3, as stated: once a feed or finish call has reported an error, no
\* adapter call follows in the run, and the exit code is not zero.
NoCallAfterError ==
    errSeen => (afterErr = {} /\ (pc = "exited" => exitCode # 0))

\* C3, amended: once a feed or finish call has reported an error, no feed and
\* no finish call follows in the run; the only adapter calls that follow are
\* the error-name query and the two destroy calls; the exit code is 1.
ErrorShortCircuit ==
    errSeen => /\ afterErr \subseteq {"errorName", "freeC", "freeD"}
               /\ pc = "exited" => exitCode = 1

ErrorShortCircuitSeen ==
    /\ errSeen
    /\ pc = "exited"
    /\ exitCode = 1
    /\ afterErr = {"errorName", "freeC", "freeD"}
    /\ nFinish > 0

\* C4, as stated: in a run that ends with success, in either direction, the
\* feed calls have consumed as many bytes as the source holds.
AllInputConsumed == Succeeded => consumed = Len(file)

\* C4, amended: a compression run that ends with success has consumed as many
\* bytes as the source holds; so has a decompression run that ends with
\* success, unless its last feed call returned status zero: the engine then
\* ended the stream, and the source bytes after the end of the stream were
\* not consumed.
InputConsumedUnlessStreamEnded ==
    Succeeded => /\ consumed <= Len(file)
                 /\ (bCompress \/ res # 0) => consumed = Len(file)

InputConsumedSeen ==
    /\ Succeeded
    /\ bCompress
    /\ consumed = MaxLen
    /\ Len(file) = MaxLen

\* C5: in a compression run every finish call comes after the main loop has
\* ended (the source is at its end and the input buffer is consumed) and no
\* feed call follows a finish call; finish is entered with the output
\* position at 0 and everything produced so far written; the run returns
\* success only after at least one finish call, the last of which returned
\* zero, with all output written.  A decompression run never calls finish.
HasFeedAfterFinish ==
    \E i \in 1..Len(calls), j \in 1..Len(calls) :
        i < j /\ calls[i] = "finish" /\ calls[j] = "feed"

FinishProtocol ==
    /\ nFinish > 0 => /\ bCompress
                      /\ rpos = Len(file)
                      /\ in_buf.pos = in_buf.size
    /\ ~HasFeedAfterFinish
    /\ pc = "e_call" => (out_buf.pos = 0 /\ sink = produced)
    /\ (bCompress /\ pc = "cleanup" /\ ret = 0)
           => /\ nFinish >= 1
              /\ calls[Len(calls)] = "finish"
              /\ res = 0
              /\ out_buf.pos = 0
              /\ sink = produced
    /\ ~bCompress => nFinish = 0

FinishProtocolSeen ==
    /\ bCompress
    /\ Succeeded
    /\ nFinish = CountCap
    /\ Len(file) > CInCap
    /\ Len(sink) = Len(file) + 1

\* C6: at every point of the compression loop, the finish loop and the
\* decompression loop, 0 <= pos <= size <= capacity holds of the input buffer
\* and of the output buffer.
BufferInvariant ==
    pc \in PumpPcs
        => /\ 0 <= in_buf.pos
           /\ in_buf.pos <= in_buf.size
           /\ in_buf.size <= (IF bCompress THEN CInCap ELSE DInCap)
           /\ 0 <= out_buf.pos
           /\ out_buf.pos <= out_buf.size
           /\ out_buf.size <= (IF bCompress THEN COutCap ELSE DOutCap)

BufferInvariantSeen ==
    /\ pc = "c_top"
    /\ nFeed > 0
    /\ 0 < in_buf.pos
    /\ in_buf.pos < in_buf.size

\* C7: the process exits with code 0 when nothing failed and with code 1
\* when a file could not be opened, a context could not be allocated, an
\* init call reported an error, or a feed or finish call reported an error.
ExitCodeTellsFailure ==
    pc = "exited" => exitCode = (IF failure = "none" /\ ~errSeen THEN 0 ELSE 1)

ExitCodeTellsFailureSeen == pc = "exited" /\ exitCode = 1 /\ errSeen /\ nFeed > 0

\* C8: when the process has ended, every engine context that was created
\* has been destroyed.
ContextsDestroyed ==
    pc = "exited" => (fcs \in {"null", "freed"} /\ fds \in {"null", "freed"})

\* C9, as stated: the output name of a compression ends with ".lzma2"; the
\* output name of a decompression made from a name that ends with ".lzma2"
\* does not.
SuffixInvariant ==
    Resolved => /\ bCompress => EndsWith(out_name, postfix)
                /\ (~bCompress /\ EndsWith(RequestedOut(argv), postfix))
                       => ~EndsWith(out_name, postfix)

\* C9, amended: the output name of a compression ends with ".lzma2"; the
\* output name of a decompression made from a name that ends with ".lzma2"
\* is that name without its last ".lzma2", so it ends with ".lzma2" only
\* when the name ended with ".lzma2.lzma2".
SuffixStrippedOnce ==
    Resolved => /\ bCompress => EndsWith(out_name, postfix)
                /\ (~bCompress /\ EndsWith(RequestedOut(argv), postfix))
                       => /\ out_name \o postfix = RequestedOut(argv)
                          /\ EndsWith(out_name, postfix)
                                 <=> EndsWith(RequestedOut(argv), postfix \o postfix)

SuffixStrippedOnceSeen ==
    /\ Succeeded
    /\ ~bCompress
    /\ name = FileA \o postfix
    /\ out_name = FileB \o postfix

\* C10: when the process has ended, neither the source nor the sink is open.
FilesClosed == pc = "exited" => (fin # "open" /\ fout # "open")

FilesClosedSeen == pc = "exited" /\ failure = "openOut" /\ fin = "closed"

\* the last read of the compression source got fewer bytes than it asked for:
\* the source has signalled its end
CSourceEnded == in_buf.size < CInCap

\* the compression main loop has been left
CLoopLeft ==
    bCompress /\ (pc \in {"e_call", "e_chk"} \/ (pc \in {"cleanup", "exited"} /\ nFinish > 0))

\* C11, as stated: the compression main loop goes round only while the input
\* buffer holds unread bytes or the source has not signalled its end, and it
\* is left only when the source is at its end and the input buffer is
\* consumed.
CLoopWhileWork ==
    /\ (pc = "c_top" /\ nFeed > 0) => (in_buf.pos < in_buf.size \/ ~CSourceEnded)
    /\ CLoopLeft => (rpos = Len(file) /\ in_buf.pos = in_buf.size)

\* C11, amended: the compression main loop goes round while the last refill
\* got at least one byte and is left exactly when a refill has got none.  So
\* it is left only when the source is at its end and the input buffer is
\* consumed, never while unread bytes remain in the buffer or the source; and
\* when a last chunk shorter than the buffer has been consumed it goes round
\* once more, on an empty input buffer, before it is left.
CLoopUntilEmptyRead ==
    /\ (pc = "c_top" /\ nFeed > 0) => in_buf.size # 0
    /\ CLoopLeft => /\ in_buf.size = 0
                    /\ in_buf.pos = in_buf.size
                    /\ rpos = Len(file)
                    /\ consumed = Len(file)

CLoopUntilEmptyReadSeen ==
    /\ pc = "c_top"
    /\ nFeed > 0
    /\ CSourceEnded
    /\ in_buf.pos = in_buf.size
    /\ rpos = Len(file)

(***************************************************************************)
(* The process takes its next step whenever it has one: main is one        *)
(* sequential thread and every adapter call returns.                       *)
(***************************************************************************)
SpecLive == Init /\ [][Next]_vars /\ WF_vars(Next)

\* C12: a run on an engine in which every call that could consume or produce
\* something did so comes to its end; and a call that consumed and produced
\* nothing leaves the compression loop where it was: the loop test does not
\* look at progress, so an engine that keeps doing so keeps the loop running.
NoProgressNoExit ==
    /\ (pc = "c_feed" /\ in_buf.pos < in_buf.size /\ in_buf' = in_buf
          /\ out_buf' = out_buf /\ ~FL2_isError(res'))
           => pc' = "c_chk"
    /\ (pc = "c_chk" /\ ~FL2_isError(res) /\ in_buf.pos < in_buf.size /\ out_buf.pos = 0)
           => (pc' = "c_top" /\ in_buf' = in_buf /\ out_buf' = out_buf /\ sink' = sink)
    /\ (pc = "c_top" /\ in_buf.pos < in_buf.size)
           => (pc' = "c_feed" /\ in_buf' = in_buf /\ out_buf' = out_buf /\ rpos' = rpos)

Terminates == <>(stalled \/ pc = "exited") /\ [][NoProgressNoExit]_vars

TerminatesSeen ==
    /\ pc = "c_top"
    /\ stalled
    /\ nFeed = CountCap
    /\ in_buf.pos = 0
    /\ in_buf.size = CInCap
    /\ sink = <<>>

\* Without the progress condition the compression loop need not end: TLC
\* refutes this formula under SpecLive with a run that stays in the loop, the
\* engine consuming and producing nothing at every call.
CLoopAlwaysLeft == (pc = "c_top") ~> (pc \notin {"c_top", "c_feed", "c_chk"})

\* the pump has run
PumpRan == pc \in PumpPcs \/ (pc \in {"cleanup", "exited"} /\ nFeed > 0)

EmptySourceCompress ==
    (bCompress /\ Len(file) = 0)
        => /\ nFeed <= 1
           /\ pc \in {"c_chk", "e_call", "e_chk"} => (nFeed = 1 /\ consumed = 0 /\ in_buf.size = 0)
           /\ (pc = "cleanup" /\ ~errSeen) => (nFeed = 1 /\ nFinish >= 1 /\ ret = 0)
           /\ (pc = "exited" /\ failure = "none" /\ ~errSeen)
                  => /\ exitCode = 0
                     /\ nFeed = 1
                     /\ nFinish >= 1
                     /\ sink = EncSeq(file) \o <<0>>

EmptySourceCompressSeen ==
    /\ bCompress
    /\ Len(file) = 0
    /\ Succeeded
    /\ nFeed = 1
    /\ Len(sink) = 1

\* C15: decompression of an empty source.  decompress_file makes exactly one
\* feed call and returns success only if that call returned status zero and
\* produced no output.
EmptySourceDecompress ==
    (~bCompress /\ Len(file) = 0)
        => /\ nFeed <= 1
           /\ Succeeded => (nFeed = 1 /\ res = 0 /\ Len(sink) = 0)

\* the data symbols among the symbols a decoder has taken: all but the end mark
DataOf(s) ==
    IF s # <<>> /\ IsEndMark(s[Len(s)]) THEN SubSeq(s, 1, Len(s) - 1) ELSE s

\* what the engine has been given, told from what it has produced and holds
EngineGot(s) ==
    IF bCompress
    THEN produced \o eng.pend = EncSeq(s) \o (IF eng.ended THEN <<0>> ELSE <<>>)
    ELSE produced \o eng.pend = DecSeq(DataOf(s))

\* C16: in both directions the bytes read and not yet consumed are the ones
\* the input buffer holds unread, so a refill never overwrites an unread
\* byte; the engine has been given the bytes of the source in source order,
\* each once; after a refill the position is 0 and the size is the number of
\* bytes read.
RefillDiscipline ==
    pc \in PumpPcs
        => /\ consumed + (in_buf.size - in_buf.pos) = rpos
           /\ SubSeq(in_buffer, in_buf.pos + 1, in_buf.size) = SubSeq(file, consumed + 1, rpos)
           /\ EngineGot(SubSeq(file, 1, consumed))
           /\ in_size = rpos
           /\ (pc \in {"c_feed", "d_feed"} /\ in_buf.pos = 0)
                  => (in_buf.size = Len(in_buffer) /\ in_buf.size <= Len(file))

RefillDisciplineSeen ==
    /\ pc = "c_feed"
    /\ in_buf.pos = 0
    /\ in_buf.size = 1
    /\ rpos = MaxLen
    /\ consumed = CInCap
    /\ nFeed > 0

\* C17: whatever the init calls return, the context of the run's direction
\* has had its init call made, without error, before the first feed call on
\* it; and an init call that reports an error ends the process with exit
\* code 1 and no feed or finish call.
InitBeforeUse ==
    /\ nFeed > 0 => IF bCompress
                    THEN WasCalled("initC") /\ fcs \in {"ready", "freed"}
                    ELSE WasCalled("initD") /\ fds \in {"ready", "freed"}
    /\ failure = "init" => (pc = "exited" /\ exitCode = 1 /\ nFeed = 0 /\ nFinish = 0)

\* C18: the output file that open_files opens, truncating it, is not the
\* input file it opened for reading: the resolved output path differs from
\* the input path.
SourceNotClobbered == fout # "unopened" => ~SamePath(out_name, name)

====
